---------------------------- MODULE Spec2Model ----------------------------
(***************************************************************************)
(* Model of bank.c: the account store, the per-account transaction ring    *)
(* (txlog_t), the open-addressing PIX table and the banking operations.    *)
(*                                                                         *)
(* Strings that are only compared (username, password, agency, notes,      *)
(* printed messages) are TLA+ strings; PIX keys are sequences of character *)
(* codes, because fnv1a_hash reads their bytes.  A transaction's note is   *)
(* kept as the fixed text of its format string; the formatted amount it    *)
(* embeds is the record's amount field.                                    *)
(***************************************************************************)
EXTENDS Integers, Sequences, FiniteSets, TLC

(* ------------------------------ Config -------------------------------- *)
\* Sizes of the model; bank.c sets 1024, 256 and 11 (lines 24, 30, 34).
MAX_ACCOUNTS == 3
TX_LOG_SIZE == 2
PIX_TABLE_BITS == 2
\* Width of cents_t in the model (int64_t in bank.c, line 38).
CentsBits == 16
\* An operation is started only while fewer records than this were logged:
\* MaxPushes under Spec, LedgerPushes under SpecLedger, PixPushes under SpecPix.
MaxPushes == 2
LedgerPushes == 3
PixPushes == 3

RECURSIVE Pow2(_)
Pow2(n) == IF n = 0 THEN 1 ELSE 2 * Pow2(n - 1)

PIX_TABLE_SIZE == Pow2(PIX_TABLE_BITS)

TX_DEPOSIT == 1
TX_WITHDRAW == 2
TX_TRANSFER_OUT == 3
TX_TRANSFER_IN == 4
TX_CREDIT_ADV == 5
TX_MISC == 6

\* a->credit_limit = 100 * 100
DEFAULT_CREDIT_LIMIT == 10000

Handles == 0 .. (MAX_ACCOUNTS - 1)
Slots == 0 .. (PIX_TABLE_SIZE - 1)

(* ------------------------------ cents_t ------------------------------- *)
CentsMod == Pow2(CentsBits)
CENTS_MAX == Pow2(CentsBits - 1) - 1
CENTS_MIN == 0 - Pow2(CentsBits - 1)

\* Two's-complement value of x in the width of cents_t.
WrapCents(x) == ((x - CENTS_MIN) % CentsMod) + CENTS_MIN

\* a += b and a -= b on cents_t.  The build (gcc -O3, no -ftrapv, line 6)
\* compiles the signed addition to a plain machine add, so an overflowing
\* result is the wrapped one.
AddCents(a, b) == WrapCents(a + b)
SubCents(a, b) == WrapCents(a - b)

(* ------------------------------ strings ------------------------------- *)
user1pix == <<117, 115, 101, 114, 49, 112, 105, 120>>
user2pix == <<117, 115, 101, 114, 50, 112, 105, 120>>
key_j == <<106>>
key_z == <<122>>
key_d == <<100>>
NoKey == <<>>

(* --------------------------- transaction log -------------------------- *)
Tx(type, amount, note) == [type |-> type, amount |-> amount, note |-> note]
ZeroTx == Tx(0, 0, "")
EmptyLog == [entries |-> [i \in 0 .. (TX_LOG_SIZE - 1) |-> ZeroTx],
             head |-> 0, count |-> 0]

\* txlog_push that, on a full ring, overwrites the oldest slot and leaves head.
txlog_push_stuck(log, type, amount, note) ==
    IF log.count < TX_LOG_SIZE
    THEN LET idx == (log.head + log.count) % TX_LOG_SIZE
         IN [log EXCEPT !.count = log.count + 1,
                        !.entries[idx] = Tx(type, amount, note)]
    ELSE [log EXCEPT !.entries[log.head] = Tx(type, amount, note)]

txlog_push(log, type, amount, note) ==
    IF log.count < TX_LOG_SIZE
    THEN LET idx == (log.head + log.count) % TX_LOG_SIZE
         IN [log EXCEPT !.count = log.count + 1,
                        !.entries[idx] = Tx(type, amount, note)]
    ELSE LET idx == log.head
         IN [log EXCEPT !.head = (log.head + 1) % TX_LOG_SIZE,
                        !.entries[idx] = Tx(type, amount, note)]

\* The records print_txlog visits, in the order it visits them.
print_txlog(log) ==
    [i \in 1 .. log.count |-> log.entries[(log.head + (i - 1)) % TX_LOG_SIZE]]

(* ------------------------------ accounts ------------------------------ *)
ZeroAccount ==
    [username |-> "", password |-> "", agency |-> "",
     balance |-> 0, credit_limit |-> 0, credit_used |-> 0,
     pix_key |-> NoKey, txlog |-> EmptyLog, used |-> 0]

(* ------------------------------ PIX table ----------------------------- *)
RECURSIVE Xor(_, _)
Xor(a, b) ==
    IF a = 0 THEN b
    ELSE IF b = 0 THEN a
    ELSE ((a + b) % 2) + 2 * Xor(a \div 2, b \div 2)

\* The low 16 bits of the offset basis 1469598103934665603 and of the prime
\* 1099511628211.  The low bits of h ^ c and of h * p depend only on the low
\* bits of the operands, and the table index is h & (PIX_TABLE_SIZE - 1).
FNV_OFFSET_LOW == 899
FNV_PRIME_LOW == 435
HashMod == Pow2(16)

RECURSIVE fnv1a_from(_, _, _)
fnv1a_from(h, s, i) ==
    IF i > Len(s) THEN h
    ELSE fnv1a_from((Xor(h, s[i]) * FNV_PRIME_LOW) % HashMod, s, i + 1)

fnv1a_hash(s) == fnv1a_from(FNV_OFFSET_LOW, s, 1)

\* A probe step that skips a slot.
NextSlot_skip(idx) == (idx + 2) % PIX_TABLE_SIZE

HomeSlot(key) == fnv1a_hash(key) % PIX_TABLE_SIZE
NextSlot(idx) == (idx + 1) % PIX_TABLE_SIZE

\* Results of a probe loop that never ends (a full table without a match).
FindHangs == 0 - 2
TableHangs == [i \in Slots |-> 0 - 1]

\* The test pix_find and pix_remove apply to a slot's account index.
FindMatch(accs, cnt, ai, key) ==
    /\ ai >= 0
    /\ ai < cnt
    /\ accs[ai].used # 0
    /\ accs[ai].pix_key # NoKey
    /\ accs[ai].pix_key = key

\* The test pix_insert applies (no check of pix_key[0]).
InsertMatch(accs, cnt, ai, key) ==
    /\ ai >= 0
    /\ ai < cnt
    /\ accs[ai].used # 0
    /\ accs[ai].pix_key = key

RECURSIVE pix_find_loop(_, _, _, _, _, _)
pix_find_loop(tbl, accs, cnt, key, idx, fuel) ==
    IF fuel = 0 THEN FindHangs
    ELSE IF tbl[idx] = 0 THEN 0 - 1
    ELSE IF FindMatch(accs, cnt, tbl[idx] - 1, key) THEN tbl[idx] - 1
    ELSE pix_find_loop(tbl, accs, cnt, key, NextSlot(idx), fuel - 1)

pix_find(tbl, accs, cnt, key) ==
    IF key = NoKey THEN 0 - 1
    ELSE pix_find_loop(tbl, accs, cnt, key, HomeSlot(key), PIX_TABLE_SIZE)

\* pix_insert without the probe: the entry is written to the key's home slot.
pix_insert_home(tbl, accs, cnt, key, account_index) ==
    IF key = NoKey THEN tbl
    ELSE [tbl EXCEPT ![fnv1a_hash(key) % PIX_TABLE_SIZE] = account_index + 1]

RECURSIVE pix_insert_loop(_, _, _, _, _, _, _)
pix_insert_loop(tbl, accs, cnt, key, account_index, idx, fuel) ==
    IF fuel = 0 THEN TableHangs
    ELSE IF tbl[idx] = 0 THEN [tbl EXCEPT ![idx] = account_index + 1]
    ELSE IF InsertMatch(accs, cnt, tbl[idx] - 1, key)
         THEN [tbl EXCEPT ![idx] = account_index + 1]
    ELSE pix_insert_loop(tbl, accs, cnt, key, account_index, NextSlot(idx), fuel - 1)

pix_insert(tbl, accs, cnt, key, account_index) ==
    IF key = NoKey THEN tbl
    ELSE pix_insert_loop(tbl, accs, cnt, key, account_index, HomeSlot(key),
                         PIX_TABLE_SIZE)

\* The rehash loop of pix_remove that leaves the following cluster where it is.
pix_rehash_none(tbl, accs, cnt, j, fuel) == tbl

\* The rehash loop of pix_remove, from slot j on.
RECURSIVE pix_rehash_loop(_, _, _, _, _)
pix_rehash_loop(tbl, accs, cnt, j, fuel) ==
    IF tbl = TableHangs \/ fuel = 0 THEN TableHangs
    ELSE IF tbl[j] = 0 THEN tbl
    ELSE LET re_ai == tbl[j] - 1
             cleared == [tbl EXCEPT ![j] = 0]
             again == IF /\ re_ai >= 0
                         /\ re_ai < cnt
                         /\ accs[re_ai].used # 0
                         /\ accs[re_ai].pix_key # NoKey
                      THEN pix_insert(cleared, accs, cnt, accs[re_ai].pix_key, re_ai)
                      ELSE cleared
         IN pix_rehash_loop(again, accs, cnt, NextSlot(j), fuel - 1)

\* The slots for which the body of pix_remove's rehash loop runs, in order, from
\* slot j on; a last element -1 stands for a loop that does not end.
RECURSIVE pix_rehash_visited(_, _, _, _, _)
pix_rehash_visited(tbl, accs, cnt, j, fuel) ==
    IF tbl = TableHangs \/ fuel = 0 THEN <<0 - 1>>
    ELSE IF tbl[j] = 0 THEN <<>>
    ELSE LET re_ai == tbl[j] - 1
             cleared == [tbl EXCEPT ![j] = 0]
             again == IF /\ re_ai >= 0
                         /\ re_ai < cnt
                         /\ accs[re_ai].used # 0
                         /\ accs[re_ai].pix_key # NoKey
                      THEN pix_insert(cleared, accs, cnt, accs[re_ai].pix_key, re_ai)
                      ELSE cleared
         IN <<j>> \o pix_rehash_visited(again, accs, cnt, NextSlot(j), fuel - 1)

\* pix_remove that clears the slot and leaves the following cluster where it is.
RECURSIVE pix_remove_norehash_loop(_, _, _, _, _, _)
pix_remove_norehash_loop(tbl, accs, cnt, key, idx, fuel) ==
    IF fuel = 0 THEN TableHangs
    ELSE IF tbl[idx] = 0 THEN tbl
    ELSE IF FindMatch(accs, cnt, tbl[idx] - 1, key) THEN [tbl EXCEPT ![idx] = 0]
    ELSE pix_remove_norehash_loop(tbl, accs, cnt, key, NextSlot(idx), fuel - 1)

pix_remove_norehash(tbl, accs, cnt, key) ==
    IF key = NoKey THEN tbl
    ELSE pix_remove_norehash_loop(tbl, accs, cnt, key, HomeSlot(key), PIX_TABLE_SIZE)

\* pix_remove that leaves the table as it is.
pix_remove_keep(tbl, accs, cnt, key) ==
    IF key = NoKey THEN tbl ELSE tbl

RECURSIVE pix_remove_loop(_, _, _, _, _, _)
pix_remove_loop(tbl, accs, cnt, key, idx, fuel) ==
    IF fuel = 0 THEN TableHangs
    ELSE IF tbl[idx] = 0 THEN tbl
    ELSE IF FindMatch(accs, cnt, tbl[idx] - 1, key)
         THEN pix_rehash_loop([tbl EXCEPT ![idx] = 0], accs, cnt, NextSlot(idx),
                              2 * PIX_TABLE_SIZE)
    ELSE pix_remove_loop(tbl, accs, cnt, key, NextSlot(idx), fuel - 1)

pix_remove(tbl, accs, cnt, key) ==
    IF key = NoKey THEN tbl
    ELSE pix_remove_loop(tbl, accs, cnt, key, HomeSlot(key), PIX_TABLE_SIZE)


(* ------------------------------- state -------------------------------- *)
VARIABLES
    accounts,        \* static Account accounts[MAX_ACCOUNTS]
    account_count,   \* static unsigned account_count
    pix_table,       \* static int pix_table[PIX_TABLE_SIZE]
    out,             \* the message the last operation printed
    call,            \* the last operation called, with its arguments
    hist             \* per account, every record ever passed to txlog_push

vars == <<accounts, account_count, pix_table, out, call, hist>>

(* --------------------------- account helpers -------------------------- *)
RECURSIVE find_account_from(_, _, _, _)
find_account_from(accs, cnt, name, i) ==
    IF i >= cnt THEN 0 - 1
    ELSE IF accs[i].used # 0 /\ accs[i].username = name THEN i
    ELSE find_account_from(accs, cnt, name, i + 1)

find_account_by_name(accs, cnt, name) == find_account_from(accs, cnt, name, 0)

log_account_tx(accs, h, type, amt, note) ==
    [accs EXCEPT ![h].txlog = txlog_push(@, type, amt, note)]

\* The same record, appended to the account's full history.
Recorded(hs, h, type, amt, note) ==
    [hs EXCEPT ![h] = Append(@, Tx(type, amt, note))]

\* The operation op, called for account h with these arguments.
Call(op, h, amount, key, s1, s2) ==
    [op |-> op, h |-> h, amount |-> amount, key |-> key, s1 |-> s1, s2 |-> s2]

Rejected(msg) ==
    /\ out' = msg
    /\ UNCHANGED <<accounts, account_count, pix_table, hist>>

(* --------------------------- initialization --------------------------- *)
SampleAccount(name, key) ==
    [ZeroAccount EXCEPT !.used = 1, !.username = name, !.password = "pass",
                        !.agency = "DF", !.pix_key = key,
                        !.credit_limit = DEFAULT_CREDIT_LIMIT, !.balance = 0]

\* main: memset(pix_table, 0), then init_sample_accounts on the zeroed store.
init_sample_accounts ==
    LET accs0 == [h \in Handles |-> ZeroAccount]
        tbl0 == [i \in Slots |-> 0]
    IN IF 0 + 2 > MAX_ACCOUNTS
       THEN [accs |-> accs0, cnt |-> 0, tbl |-> tbl0]
       ELSE LET accs1 == [accs0 EXCEPT ![0] = SampleAccount("user1", user1pix)]
                tbl1 == pix_insert(tbl0, accs1, 1, user1pix, 0)
                accs2 == [accs1 EXCEPT ![1] = SampleAccount("user2", user2pix)]
                tbl2 == pix_insert(tbl1, accs2, 2, user2pix, 1)
            IN [accs |-> accs2, cnt |-> 2, tbl |-> tbl2]

Init ==
    /\ accounts = init_sample_accounts.accs
    /\ account_count = init_sample_accounts.cnt
    /\ pix_table = init_sample_accounts.tbl
    /\ out = ""
    /\ call = Call("main", 0 - 1, 0, NoKey, "", "")
    /\ hist = [h \in Handles |-> <<>>]

(* ------------------------- banking operations ------------------------- *)
\* deposit that credits the first account of the store, not the caller's.
deposit_first(h, amount) ==
    /\ call' = Call("deposit", h, amount, NoKey, "", "")
    /\ IF amount <= 0
       THEN Rejected("Invalid deposit amount.")
       ELSE LET accs1 == [accounts EXCEPT ![0].balance = AddCents(@, amount)]
            IN /\ accounts' = log_account_tx(accs1, h, TX_DEPOSIT, amount, "Deposited")
               /\ hist' = Recorded(hist, h, TX_DEPOSIT, amount, "Deposited")
               /\ out' = "Deposited"
               /\ UNCHANGED <<account_count, pix_table>>

deposit(h, amount) ==
    /\ call' = Call("deposit", h, amount, NoKey, "", "")
    /\ IF amount <= 0
       THEN Rejected("Invalid deposit amount.")
       ELSE LET accs1 == [accounts EXCEPT ![h].balance = AddCents(@, amount)]
            IN /\ accounts' = log_account_tx(accs1, h, TX_DEPOSIT, amount, "Deposited")
               /\ hist' = Recorded(hist, h, TX_DEPOSIT, amount, "Deposited")
               /\ out' = "Deposited"
               /\ UNCHANGED <<account_count, pix_table>>

\* withdraw_ without the test of the balance.
withdraw_overdraw(h, amount) ==
    /\ call' = Call("withdraw_", h, amount, NoKey, "", "")
    /\ IF amount <= 0
       THEN Rejected("Invalid withdrawal amount.")
       ELSE IF TRUE
       THEN LET accs1 == [accounts EXCEPT ![h].balance = SubCents(@, amount)]
            IN /\ accounts' = log_account_tx(accs1, h, TX_WITHDRAW, amount, "Withdrew")
               /\ hist' = Recorded(hist, h, TX_WITHDRAW, amount, "Withdrew")
               /\ out' = "Withdrew"
               /\ UNCHANGED <<account_count, pix_table>>
       ELSE Rejected("Insufficient funds.")

withdraw_(h, amount) ==
    /\ call' = Call("withdraw_", h, amount, NoKey, "", "")
    /\ IF amount <= 0
       THEN Rejected("Invalid withdrawal amount.")
       ELSE IF amount <= accounts[h].balance
       THEN LET accs1 == [accounts EXCEPT ![h].balance = SubCents(@, amount)]
            IN /\ accounts' = log_account_tx(accs1, h, TX_WITHDRAW, amount, "Withdrew")
               /\ hist' = Recorded(hist, h, TX_WITHDRAW, amount, "Withdrew")
               /\ out' = "Withdrew"
               /\ UNCHANGED <<account_count, pix_table>>
       ELSE Rejected("Insufficient funds.")

\* The branch of transfer_ taken when the target key is the caller's own.
credit_advance(h, amount) ==
    LET available == SubCents(accounts[h].credit_limit, accounts[h].credit_used)
    IN IF amount <= available
       THEN LET accs1 == [accounts EXCEPT ![h].credit_used = AddCents(@, amount)]
                accs2 == [accs1 EXCEPT ![h].balance = AddCents(@, amount)]
            IN /\ accounts' = log_account_tx(accs2, h, TX_CREDIT_ADV, amount,
                                             "Credit advance")
               /\ hist' = Recorded(hist, h, TX_CREDIT_ADV, amount, "Credit advance")
               /\ out' = "Added to balance using credit."
               /\ UNCHANGED <<account_count, pix_table>>
       ELSE Rejected("Not enough credit available.")

\* The rest of transfer_: the target is looked up in the PIX table.
transfer_to(h, amount, key) ==
    LET tidx == pix_find(pix_table, accounts, account_count, key)
    IN /\ tidx # FindHangs
       /\ IF tidx < 0
          THEN Rejected("Target PIX key not found or not set.")
          ELSE IF amount <= accounts[h].balance
          THEN LET accs1 == [accounts EXCEPT ![h].balance = SubCents(@, amount)]
                   accs2 == [accs1 EXCEPT ![tidx].balance = AddCents(@, amount)]
                   accs3 == log_account_tx(accs2, h, TX_TRANSFER_OUT, amount,
                                           "Transferred")
                   hist1 == Recorded(hist, h, TX_TRANSFER_OUT, amount, "Transferred")
               IN /\ accounts' = log_account_tx(accs3, tidx, TX_TRANSFER_IN, amount,
                                                "Received")
                  /\ hist' = Recorded(hist1, tidx, TX_TRANSFER_IN, amount, "Received")
                  /\ out' = "Transferred"
                  /\ UNCHANGED <<account_count, pix_table>>
          ELSE Rejected("Insufficient funds for transfer.")

\* transfer_ without the branch for the caller's own key.
transfer_nocredit(h, amount, key) ==
    /\ call' = Call("transfer_", h, amount, key, "", "")
    /\ IF accounts[h].pix_key = NoKey
       THEN Rejected("You must set your own PIX key before making transfers.")
       ELSE IF amount <= 0
       THEN Rejected("Invalid transfer amount.")
       ELSE transfer_to(h, amount, key)

\* transfer_ without the test that the caller has a PIX key.
transfer_nokeycheck(h, amount, key) ==
    /\ call' = Call("transfer_", h, amount, key, "", "")
    /\ IF amount <= 0
       THEN Rejected("Invalid transfer amount.")
       ELSE IF key = accounts[h].pix_key
       THEN credit_advance(h, amount)
       ELSE transfer_to(h, amount, key)

transfer_(h, amount, key) ==
    /\ call' = Call("transfer_", h, amount, key, "", "")
    /\ IF accounts[h].pix_key = NoKey
       THEN Rejected("You must set your own PIX key before making transfers.")
       ELSE IF amount <= 0
       THEN Rejected("Invalid transfer amount.")
       ELSE IF key = accounts[h].pix_key
       THEN credit_advance(h, amount)
       ELSE transfer_to(h, amount, key)

\* change_credit_limit that compares the new limit with 0, not with credit_used.
change_credit_limit_nonneg(h, new_limit) ==
    /\ call' = Call("change_credit_limit", h, new_limit, NoKey, "", "")
    /\ IF new_limit >= 0
       THEN LET accs1 == [accounts EXCEPT ![h].credit_limit = new_limit]
            IN /\ accounts' = log_account_tx(accs1, h, TX_MISC, 0, "Credit limit set to")
               /\ hist' = Recorded(hist, h, TX_MISC, 0, "Credit limit set to")
               /\ out' = "Credit limit updated"
               /\ UNCHANGED <<account_count, pix_table>>
       ELSE Rejected("New limit cannot be lower than current credit used.")

change_credit_limit(h, new_limit) ==
    /\ call' = Call("change_credit_limit", h, new_limit, NoKey, "", "")
    /\ IF new_limit >= accounts[h].credit_used
       THEN LET accs1 == [accounts EXCEPT ![h].credit_limit = new_limit]
            IN /\ accounts' = log_account_tx(accs1, h, TX_MISC, 0, "Credit limit set to")
               /\ hist' = Recorded(hist, h, TX_MISC, 0, "Credit limit set to")
               /\ out' = "Credit limit updated"
               /\ UNCHANGED <<account_count, pix_table>>
       ELSE Rejected("New limit cannot be lower than current credit used.")

\* change_password without the comparison of oldp with the stored password.
change_password_anyold(h, oldp, newp) ==
    /\ call' = Call("change_password", h, 0, NoKey, oldp, newp)
    /\ IF newp = ""
       THEN Rejected("New password cannot be empty.")
       ELSE LET accs1 == [accounts EXCEPT ![h].password = newp]
            IN /\ accounts' = log_account_tx(accs1, h, TX_MISC, 0, "Password changed")
               /\ hist' = Recorded(hist, h, TX_MISC, 0, "Password changed")
               /\ out' = "Password updated successfully."
               /\ UNCHANGED <<account_count, pix_table>>

change_password(h, oldp, newp) ==
    /\ call' = Call("change_password", h, 0, NoKey, oldp, newp)
    /\ IF accounts[h].password # oldp
       THEN Rejected("Incorrect current password.")
       ELSE IF newp = ""
       THEN Rejected("New password cannot be empty.")
       ELSE LET accs1 == [accounts EXCEPT ![h].password = newp]
            IN /\ accounts' = log_account_tx(accs1, h, TX_MISC, 0, "Password changed")
               /\ hist' = Recorded(hist, h, TX_MISC, 0, "Password changed")
               /\ out' = "Password updated successfully."
               /\ UNCHANGED <<account_count, pix_table>>

\* set_pix_key without the test that another account holds the key.
set_pix_key_unchecked(h, pix) ==
    /\ call' = Call("set_pix_key", h, 0, pix, "", "")
    /\ IF pix = NoKey
       THEN Rejected("PIX key cannot be empty.")
       ELSE LET existing == pix_find(pix_table, accounts, account_count, pix)
                my_index == h
            IN /\ existing # FindHangs
               /\ IF FALSE
                  THEN Rejected("This PIX key is already registered.")
                  ELSE LET tbl1 == IF accounts[h].pix_key # NoKey
                                   THEN pix_remove(pix_table, accounts, account_count,
                                                   accounts[h].pix_key)
                                   ELSE pix_table
                           accs1 == [accounts EXCEPT ![h].pix_key = pix]
                           tbl2 == IF tbl1 = TableHangs THEN TableHangs
                                   ELSE pix_insert(tbl1, accs1, account_count, pix, my_index)
                       IN /\ tbl2 # TableHangs
                          /\ pix_table' = tbl2
                          /\ accounts' = log_account_tx(accs1, h, TX_MISC, 0,
                                                        "PIX key set/updated")
                          /\ hist' = Recorded(hist, h, TX_MISC, 0, "PIX key set/updated")
                          /\ out' = "PIX key updated successfully."
                          /\ UNCHANGED account_count

\* set_pix_key that refuses every key found in the table, the caller's own too.
set_pix_key_strict(h, pix) ==
    /\ call' = Call("set_pix_key", h, 0, pix, "", "")
    /\ IF pix = NoKey
       THEN Rejected("PIX key cannot be empty.")
       ELSE LET existing == pix_find(pix_table, accounts, account_count, pix)
                my_index == h
            IN /\ existing # FindHangs
               /\ IF existing >= 0
                  THEN Rejected("This PIX key is already registered.")
                  ELSE LET tbl1 == IF accounts[h].pix_key # NoKey
                                   THEN pix_remove(pix_table, accounts, account_count,
                                                   accounts[h].pix_key)
                                   ELSE pix_table
                           accs1 == [accounts EXCEPT ![h].pix_key = pix]
                           tbl2 == IF tbl1 = TableHangs THEN TableHangs
                                   ELSE pix_insert(tbl1, accs1, account_count, pix, my_index)
                       IN /\ tbl2 # TableHangs
                          /\ pix_table' = tbl2
                          /\ accounts' = log_account_tx(accs1, h, TX_MISC, 0,
                                                        "PIX key set/updated")
                          /\ hist' = Recorded(hist, h, TX_MISC, 0, "PIX key set/updated")
                          /\ out' = "PIX key updated successfully."
                          /\ UNCHANGED account_count

\* set_pix_key that does not remove the entry of the key the account held.
set_pix_key_noremove(h, pix) ==
    /\ call' = Call("set_pix_key", h, 0, pix, "", "")
    /\ IF pix = NoKey
       THEN Rejected("PIX key cannot be empty.")
       ELSE LET existing == pix_find(pix_table, accounts, account_count, pix)
                my_index == h
            IN /\ existing # FindHangs
               /\ IF existing >= 0 /\ existing # my_index
                  THEN Rejected("This PIX key is already registered.")
                  ELSE LET tbl1 == pix_table
                           accs1 == [accounts EXCEPT ![h].pix_key = pix]
                           tbl2 == IF tbl1 = TableHangs THEN TableHangs
                                   ELSE pix_insert(tbl1, accs1, account_count, pix, my_index)
                       IN /\ tbl2 # TableHangs
                          /\ pix_table' = tbl2
                          /\ accounts' = log_account_tx(accs1, h, TX_MISC, 0,
                                                        "PIX key set/updated")
                          /\ hist' = Recorded(hist, h, TX_MISC, 0, "PIX key set/updated")
                          /\ out' = "PIX key updated successfully."
                          /\ UNCHANGED account_count

\* account_menu, case '6': set or update the PIX key of the logged-in account.
set_pix_key(h, pix) ==
    /\ call' = Call("set_pix_key", h, 0, pix, "", "")
    /\ IF pix = NoKey
       THEN Rejected("PIX key cannot be empty.")
       ELSE LET existing == pix_find(pix_table, accounts, account_count, pix)
                my_index == h
            IN /\ existing # FindHangs
               /\ IF existing >= 0 /\ existing # my_index
                  THEN Rejected("This PIX key is already registered.")
                  ELSE LET tbl1 == IF accounts[h].pix_key # NoKey
                                   THEN pix_remove(pix_table, accounts, account_count,
                                                   accounts[h].pix_key)
                                   ELSE pix_table
                           accs1 == [accounts EXCEPT ![h].pix_key = pix]
                           tbl2 == IF tbl1 = TableHangs THEN TableHangs
                                   ELSE pix_insert(tbl1, accs1, account_count, pix, my_index)
                       IN /\ tbl2 # TableHangs
                          /\ pix_table' = tbl2
                          /\ accounts' = log_account_tx(accs1, h, TX_MISC, 0,
                                                        "PIX key set/updated")
                          /\ hist' = Recorded(hist, h, TX_MISC, 0, "PIX key set/updated")
                          /\ out' = "PIX key updated successfully."
                          /\ UNCHANGED account_count

(* --------------------------- sign up / log in ------------------------- *)
\* sign_up without the test of account_count against MAX_ACCOUNTS.
sign_up_nolimit(username, password, agency) ==
    /\ call' = Call("sign_up", 0 - 1, 0, NoKey, username, agency)
    /\ IF username = ""
       THEN Rejected("Username cannot be empty.")
       ELSE IF find_account_by_name(accounts, account_count, username) >= 0
       THEN Rejected("Username already taken.")
       ELSE IF agency = ""
       THEN Rejected("Agency is required.")
       ELSE /\ accounts' = [h \in Handles |->
                               IF h = account_count
                               THEN [ZeroAccount EXCEPT !.used = 1, !.username = username,
                                                        !.password = password,
                                                        !.agency = agency, !.balance = 0,
                                                        !.credit_limit = DEFAULT_CREDIT_LIMIT,
                                                        !.credit_used = 0]
                               ELSE accounts[h]]
            /\ account_count' = account_count + 1
            /\ out' = "Account registered successfully!"
            /\ UNCHANGED <<pix_table, hist>>

\* sign_up without the test that the username is taken.
sign_up_dup(username, password, agency) ==
    /\ call' = Call("sign_up", 0 - 1, 0, NoKey, username, agency)
    /\ IF username = ""
       THEN Rejected("Username cannot be empty.")
       ELSE IF agency = ""
       THEN Rejected("Agency is required.")
       ELSE IF account_count >= MAX_ACCOUNTS
       THEN Rejected("Account limit reached.")
       ELSE /\ accounts' = [accounts EXCEPT ![account_count] =
                               [ZeroAccount EXCEPT !.used = 1, !.username = username,
                                                   !.password = password,
                                                   !.agency = agency, !.balance = 0,
                                                   !.credit_limit = DEFAULT_CREDIT_LIMIT,
                                                   !.credit_used = 0]]
            /\ account_count' = account_count + 1
            /\ out' = "Account registered successfully!"
            /\ UNCHANGED <<pix_table, hist>>

sign_up(username, password, agency) ==
    /\ call' = Call("sign_up", 0 - 1, 0, NoKey, username, agency)
    /\ IF username = ""
       THEN Rejected("Username cannot be empty.")
       ELSE IF find_account_by_name(accounts, account_count, username) >= 0
       THEN Rejected("Username already taken.")
       ELSE IF agency = ""
       THEN Rejected("Agency is required.")
       ELSE IF account_count >= MAX_ACCOUNTS
       THEN Rejected("Account limit reached.")
       ELSE /\ accounts' = [accounts EXCEPT ![account_count] =
                               [ZeroAccount EXCEPT !.used = 1, !.username = username,
                                                   !.password = password,
                                                   !.agency = agency, !.balance = 0,
                                                   !.credit_limit = DEFAULT_CREDIT_LIMIT,
                                                   !.credit_used = 0]]
            /\ account_count' = account_count + 1
            /\ out' = "Account registered successfully!"
            /\ UNCHANGED <<pix_table, hist>>

\* The account index log_in passes to account_menu, or -1.
authenticate(username, password) ==
    LET idx == find_account_by_name(accounts, account_count, username)
    IN IF idx >= 0 /\ accounts[idx].password = password THEN idx ELSE 0 - 1

log_in(username, password) ==
    /\ call' = Call("log_in", 0 - 1, 0, NoKey, username, password)
    /\ out' = IF authenticate(username, password) >= 0
              THEN "Welcome" ELSE "Invalid credentials."
    /\ UNCHANGED <<accounts, account_count, pix_table, hist>>

(* ------------------------- the program's steps ------------------------ *)
RECURSIVE SumLen(_, _)
SumLen(hs, n) == IF n = 0 THEN 0 ELSE Len(hs[n - 1]) + SumLen(hs, n - 1)

TotalPushed == SumLen(hist, MAX_ACCOUNTS)

\* What the operations print when they leave the bank as it is.
RejectionMessages ==
    {"Invalid deposit amount.", "Invalid withdrawal amount.", "Insufficient funds.",
     "You must set your own PIX key before making transfers.",
     "Invalid transfer amount.", "Not enough credit available.",
     "Target PIX key not found or not set.", "Insufficient funds for transfer.",
     "New limit cannot be lower than current credit used.",
     "Incorrect current password.", "New password cannot be empty.",
     "PIX key cannot be empty.", "This PIX key is already registered.",
     "Username cannot be empty.", "Username already taken.", "Agency is required.",
     "Account limit reached."}
LoginMessages == {"Welcome", "Invalid credentials."}

\* An operation that prints one of these messages changes nothing but `out`, so
\* what can follow it is what can follow the state it was tried in: the next
\* operation is tried from the states that accepted operations have reached.
Settled == out \notin (RejectionMessages \cup LoginMessages)

\* The accounts a user can be logged in to.
Live == 0 .. (account_count - 1)

Budget(n) == Settled /\ TotalPushed < n

Amounts == {0, 6000, CENTS_MAX}
Limits == {0 - 1, 0, 6000}
Keys == {NoKey, user1pix, user2pix, key_j}
OldPasswords == {"pass", "new"}
NewPasswords == {"", "new"}
Usernames == {"", "user1", "user3", "user4"}
Agencies == {"", "DF"}

(* Spec: every operation, on every account. *)
Deposit == Budget(MaxPushes) /\ \E h \in Live, amount \in Amounts : deposit(h, amount)
Withdraw == Budget(MaxPushes) /\ \E h \in Live, amount \in Amounts : withdraw_(h, amount)
Transfer ==
    Budget(MaxPushes) /\ \E h \in Live, amount \in Amounts, key \in Keys :
                            transfer_(h, amount, key)
ChangeCreditLimit ==
    Budget(MaxPushes) /\ \E h \in Live, new_limit \in Limits :
                            change_credit_limit(h, new_limit)
ChangePassword ==
    Budget(MaxPushes) /\ \E h \in Live, oldp \in OldPasswords, newp \in NewPasswords :
                            change_password(h, oldp, newp)
SetPixKey == Budget(MaxPushes) /\ \E h \in Live, pix \in Keys : set_pix_key(h, pix)
SignUp ==
    Budget(MaxPushes) /\ \E username \in Usernames, agency \in Agencies :
                            sign_up(username, "pass", agency)
LogIn ==
    Budget(MaxPushes) /\ \E username \in {"user1", "user4"}, password \in OldPasswords :
                            log_in(username, password)

Next ==
    \/ Deposit
    \/ Withdraw
    \/ Transfer
    \/ ChangeCreditLimit
    \/ ChangePassword
    \/ SetPixKey
    \/ SignUp
    \/ LogIn

Spec == Init /\ [][Next]_vars

(* SpecLedger: longer runs of the operations that move money or credit. *)
LedgerAmounts == {0, 5000, 6000, CENTS_MAX}
LedgerKeys == {user1pix, user2pix, key_j}
LedgerLimits == {0 - 1, 0, 6000, CENTS_MAX}

LedgerDeposit ==
    Budget(LedgerPushes) /\ \E h \in Live, amount \in LedgerAmounts : deposit(h, amount)
LedgerWithdraw ==
    Budget(LedgerPushes) /\ \E h \in Live, amount \in LedgerAmounts : withdraw_(h, amount)
LedgerTransfer ==
    Budget(LedgerPushes) /\ \E h \in Live, amount \in LedgerAmounts, key \in LedgerKeys :
                               transfer_(h, amount, key)
LedgerChangeCreditLimit ==
    Budget(LedgerPushes) /\ \E h \in Live, new_limit \in LedgerLimits :
                               change_credit_limit(h, new_limit)

NextLedger ==
    \/ LedgerDeposit
    \/ LedgerWithdraw
    \/ LedgerTransfer
    \/ LedgerChangeCreditLimit

SpecLedger == Init /\ [][NextLedger]_vars

(* SpecPix: longer runs of the operations that change the PIX table. *)
PixKeys == {NoKey, user1pix, user2pix, key_j, key_z, key_d}

PixSetPixKey == Budget(PixPushes) /\ \E h \in Live, pix \in PixKeys : set_pix_key(h, pix)
PixSignUp ==
    Budget(PixPushes) /\ \E username \in {"user2", "user3", "user4"} :
                            sign_up(username, "pass", "DF")

NextPix ==
    \/ PixSetPixKey
    \/ PixSignUp

SpecPix == Init /\ [][NextPix]_vars

(* ------------------------------ properties ---------------------------- *)
Find(key) == pix_find(pix_table, accounts, account_count, key)
FindNext(key) == pix_find(pix_table', accounts', account_count', key)
HasKey(h) == accounts[h].used # 0 /\ accounts[h].pix_key # NoKey
SetKeyAccepted == call.op = "set_pix_key" /\ out = "PIX key updated successfully."

\* C1: in every reachable state, for every live account whose PIX key is not
\* empty, pix_find of that key returns the account's index.
C1_FindReturnsHolder ==
    \A h \in Live : HasKey(h) => Find(accounts[h].pix_key) = h

\* C1, witness: an account has set a key whose home slot was taken, so its entry
\* lies further along the probe path, and pix_find still returns the account.
C1_Witness ==
    /\ SetKeyAccepted
    /\ pix_table[HomeSlot(call.key)] # call.h + 1
    /\ Find(call.key) = call.h

\* C2: in every reachable table, for every indexed key a: in the table that
\* pix_remove(a) leaves, pix_find(a) is -1 and pix_find(b) of every other indexed
\* key b is the account it was before the removal.
C2_RemoveKeepsOthers ==
    \A h \in Live :
        HasKey(h) =>
            LET after == pix_remove(pix_table, accounts, account_count,
                                    accounts[h].pix_key)
            IN /\ pix_find(after, accounts, account_count, accounts[h].pix_key) = 0 - 1
               /\ \A g \in Live \ {h} :
                      HasKey(g) =>
                          /\ Find(accounts[g].pix_key) = g
                          /\ pix_find(after, accounts, account_count,
                                      accounts[g].pix_key) = g

\* C2, witness: three keys with the same home slot, the last slot of the table,
\* were inserted in the order user2pix, j, z (a cluster that wraps around), and
\* account 0 then replaced j: the removal moved z from slot 1 back to slot 0 and
\* both remaining keys are still found.
C2_Witness ==
    /\ HomeSlot(user2pix) = PIX_TABLE_SIZE - 1
    /\ HomeSlot(key_j) = HomeSlot(user2pix)
    /\ HomeSlot(key_z) = HomeSlot(user2pix)
    /\ account_count > 2
    /\ accounts[1].pix_key = user2pix /\ hist[1] = <<>>
    /\ accounts[2].pix_key = key_z /\ Len(hist[2]) = 1
    /\ accounts[0].pix_key = key_d /\ Len(hist[0]) = 2
    /\ SetKeyAccepted /\ call.h = 0
    /\ pix_table[PIX_TABLE_SIZE - 1] = 2
    /\ pix_table[0] = 3
    /\ Find(user2pix) = 1 /\ Find(key_z) = 2 /\ Find(key_j) = 0 - 1

\* C3: in every reachable state no two distinct live accounts hold the same
\* non-empty PIX key.
C3_KeysUnique ==
    \A g \in Live, h \in Live :
        (g # h /\ HasKey(g) /\ HasKey(h)) => accounts[g].pix_key # accounts[h].pix_key

\* C3, witness: an account asked for the key another account holds and was
\* refused.
C3_Witness ==
    /\ call.op = "set_pix_key"
    /\ out = "This PIX key is already registered."
    /\ \E g \in Live \ {call.h} : accounts[g].pix_key = call.key

\* C10: a set_pix_key call with a key that another account holds is refused and
\* changes nothing; a call with the key the caller holds already is accepted and
\* pix_find of every key returns what it returned before.
C10_SetKeyTakenOrOwn ==
    [][call'.op = "set_pix_key" =>
          LET h == call'.h
              pix == call'.key
          IN /\ (pix # NoKey /\ \E g \in Live \ {h} : HasKey(g) /\ accounts[g].pix_key = pix)
                    => /\ out' = "This PIX key is already registered."
                       /\ UNCHANGED <<accounts, account_count, pix_table, hist>>
             /\ (pix # NoKey /\ accounts[h].pix_key = pix)
                    => /\ out' = "PIX key updated successfully."
                       /\ accounts'[h].pix_key = pix
                       /\ \A k \in PixKeys : FindNext(k) = Find(k)]_vars

\* C10, witness: account 1 set the key it held from the start, user2pix, while
\* key j shared its cluster; the two entries changed slots and both keys are
\* found as before.
C10_Witness ==
    /\ SetKeyAccepted /\ call.h = 1 /\ call.key = user2pix
    /\ Len(hist[1]) = 1
    /\ accounts[0].pix_key = key_j
    /\ pix_table[HomeSlot(user2pix)] = 1
    /\ Find(user2pix) = 1 /\ Find(key_j) = 0

(* The ledger properties read a step through call', the operation that made it. *)
Min(a, b) == IF a < b THEN a ELSE b
Acc(h) == accounts[h]
AccNext(h) == accounts'[h]
BankUnchanged == UNCHANGED <<accounts, account_count, pix_table, hist>>

\* C4: for every account, after k pushes print_txlog yields min(k, TX_LOG_SIZE)
\* records, and they are the last min(k, TX_LOG_SIZE) records pushed, oldest
\* first; so a push on a full ring drops exactly the oldest record.
C4_RingHoldsLatest ==
    \A h \in Handles :
        LET k == Len(hist[h])
            n == Min(k, TX_LOG_SIZE)
        IN /\ accounts[h].txlog.count = n
           /\ print_txlog(accounts[h].txlog) = SubSeq(hist[h], k - n + 1, k)

\* C4, witness: more records than the ring holds were pushed to one account, of
\* different kinds, and the ring's head has moved.
C4_Witness ==
    \E h \in Live :
        /\ Len(hist[h]) > TX_LOG_SIZE
        /\ accounts[h].txlog.head # 0
        /\ hist[h][1] # hist[h][Len(hist[h])]
        /\ print_txlog(accounts[h].txlog)[1] = hist[h][Len(hist[h]) - TX_LOG_SIZE + 1]

\* C5: after any sequence of deposits, withdrawals, transfers and credit advances
\* with amounts the operations accept, every account's balance is >= 0.
C5_BalanceNonNegative ==
    \A h \in Live : accounts[h].balance >= 0

\* C6: in every reachable state 0 <= credit_used <= credit_limit for every
\* account; a credit advance is granted only when amount <= credit_limit -
\* credit_used, and change_credit_limit refuses a limit below credit_used.
CreditBounds ==
    \A h \in Handles :
        0 <= accounts[h].credit_used /\ accounts[h].credit_used <= accounts[h].credit_limit

C6_CreditWithinLimit ==
    /\ CreditBounds
    /\ [][/\ CreditBounds'
          /\ (call'.op = "transfer_" /\ out' = "Added to balance using credit.")
                 => call'.amount <= Acc(call'.h).credit_limit - Acc(call'.h).credit_used
          /\ (call'.op = "change_credit_limit"
                  /\ call'.amount < Acc(call'.h).credit_used)
                 => /\ out' = "New limit cannot be lower than current credit used."
                    /\ BankUnchanged]_vars

\* C6, witness: an account has used its whole limit, and a lower limit was then
\* asked for and refused.
C6_Witness ==
    /\ call.op = "change_credit_limit"
    /\ out = "New limit cannot be lower than current credit used."
    /\ call.amount >= 0
    /\ accounts[call.h].credit_used = accounts[call.h].credit_limit
    /\ accounts[call.h].credit_used > 0

\* The live accounts other than h that hold key.
OtherHolders(h, key) == {g \in Live \ {h} : HasKey(g) /\ accounts[g].pix_key = key}

\* The last record of an account's history is (type, amount), the records before
\* it are the history of the state before, and the ring's newest record is it.
LoggedOne(h, type, amount) ==
    LET n == Len(hist[h])
        log == accounts'[h].txlog
    IN /\ Len(hist'[h]) = n + 1
       /\ SubSeq(hist'[h], 1, n) = hist[h]
       /\ hist'[h][n + 1].type = type
       /\ hist'[h][n + 1].amount = amount
       /\ print_txlog(log)[log.count] = hist'[h][n + 1]

\* The calls that the claim C7 lists as rejected, read in the state they are
\* made in.
ListedRejection(c) ==
    \/ c.op = "deposit" /\ c.amount <= 0
    \/ c.op = "withdraw_" /\ (c.amount <= 0 \/ c.amount > Acc(c.h).balance)
    \/ /\ c.op = "transfer_"
       /\ \/ c.amount <= 0
          \/ Acc(c.h).pix_key = NoKey
          \/ /\ c.key = Acc(c.h).pix_key
             /\ c.amount > Acc(c.h).credit_limit - Acc(c.h).credit_used
          \/ /\ c.key # Acc(c.h).pix_key
             /\ (OtherHolders(c.h, c.key) = {} \/ c.amount > Acc(c.h).balance)
    \/ c.op = "set_pix_key" /\ (c.key = NoKey \/ OtherHolders(c.h, c.key) # {})
    \/ c.op = "change_credit_limit" /\ c.amount < Acc(c.h).credit_used
    \/ c.op = "change_password" /\ (c.s1 # Acc(c.h).password \/ c.s2 = "")
    \/ /\ c.op = "sign_up"
       /\ \/ \E g \in Live : Acc(g).username = c.s1
          \/ account_count >= MAX_ACCOUNTS

\* C7: every rejected operation (a non-positive amount, an amount above the
\* balance or above the available credit, an unknown target key, a caller
\* without key, an empty or taken PIX key, a limit below credit_used, a wrong old
\* or empty new password, a taken username, a full store) leaves every account,
\* every history, the PIX table and the account count as they were.
C7_RejectedChangesNothing ==
    [][ListedRejection(call') => BankUnchanged]_vars

\* C7, witness: with the store full, and after an accepted credit advance, a
\* transfer of more than the caller's balance to another account's key was
\* refused.
C7_Witness ==
    /\ call.op = "transfer_"
    /\ out = "Insufficient funds for transfer."
    /\ OtherHolders(call.h, call.key) # {}
    /\ accounts[call.h].balance > 0
    /\ call.amount > accounts[call.h].balance
    /\ account_count = MAX_ACCOUNTS

\* C8: a transfer of amount > 0 by account A (key set, amount <= A.balance) to a
\* key that another account B holds decreases A.balance by exactly amount,
\* increases B.balance by exactly amount, and logs exactly one TRANSFER_OUT of
\* that amount for A and one TRANSFER_IN of that amount for B.
C8_TransferMovesAmount ==
    [][(/\ call'.op = "transfer_"
        /\ call'.amount > 0
        /\ HasKey(call'.h)
        /\ call'.key # Acc(call'.h).pix_key
        /\ call'.amount <= Acc(call'.h).balance)
          => \A b \in OtherHolders(call'.h, call'.key) :
                 /\ AccNext(call'.h).balance = Acc(call'.h).balance - call'.amount
                 /\ AccNext(b).balance = Acc(b).balance + call'.amount
                 /\ LoggedOne(call'.h, TX_TRANSFER_OUT, call'.amount)
                 /\ LoggedOne(b, TX_TRANSFER_IN, call'.amount)]_vars

\* C9: a transfer whose target key is the caller's own key is a credit advance:
\* it is granted iff 0 < amount <= credit_limit - credit_used, then increases
\* credit_used and balance by exactly amount and logs one CREDIT_ADV for the
\* caller only; otherwise it changes nothing.
C9_CreditAdvance ==
    [][(call'.op = "transfer_" /\ HasKey(call'.h) /\ call'.key = Acc(call'.h).pix_key)
          => LET h == call'.h
                 amount == call'.amount
             IN IF 0 < amount /\ amount <= Acc(h).credit_limit - Acc(h).credit_used
                THEN /\ AccNext(h).credit_used = Acc(h).credit_used + amount
                     /\ AccNext(h).balance = Acc(h).balance + amount
                     /\ LoggedOne(h, TX_CREDIT_ADV, amount)
                     /\ \A g \in Handles \ {h} :
                            accounts'[g] = accounts[g] /\ hist'[g] = hist[g]
                ELSE BankUnchanged]_vars

\* C11: a transfer to a key other than the caller's own fails when the caller
\* has no PIX key, even if the target key resolves to an account and the balance
\* covers the amount, and fails when pix_find does not find the target key; in
\* both cases no account, history, table slot or count changes.
C11_TransferNeedsKeys ==
    [][(/\ call'.op = "transfer_"
        /\ \/ Acc(call'.h).pix_key = NoKey
           \/ /\ call'.key # Acc(call'.h).pix_key
              /\ Find(call'.key) < 0)
          => /\ out' \in {"You must set your own PIX key before making transfers.",
                          "Invalid transfer amount.",
                          "Target PIX key not found or not set."}
             /\ BankUnchanged]_vars

\* C11, witness: a registered account without PIX key, holding a balance that
\* covers the amount, asked for a transfer to a key that another account holds,
\* and was refused.
C11_Witness ==
    /\ call.op = "transfer_"
    /\ out = "You must set your own PIX key before making transfers."
    /\ accounts[call.h].pix_key = NoKey
    /\ call.amount > 0
    /\ call.amount <= accounts[call.h].balance
    /\ Find(call.key) >= 0
    /\ Find(call.key) # call.h

\* C11, second case: the caller holds a key and the target key is in no slot.
C11_WitnessNotFound ==
    /\ call.op = "transfer_"
    /\ out = "Target PIX key not found or not set."
    /\ HasKey(call.h)
    /\ call.key # NoKey
    /\ call.amount <= accounts[call.h].balance

SignUpAccepted == call.op = "sign_up" /\ out = "Account registered successfully!"

UsernamesUnique ==
    \A g \in Live, h \in Live : g # h => accounts[g].username # accounts[h].username

\* C12: sign_up succeeds only if no account has the username and fewer than
\* MAX_ACCOUNTS accounts exist; it then adds exactly one account, at index =
\* the previous account_count, with balance 0, credit_used 0, credit_limit
\* 10000, no PIX key and an empty history, and leaves every other account and
\* the PIX table unchanged; so usernames stay unique and account_count never
\* exceeds MAX_ACCOUNTS.
C12_SignUpAddsOne ==
    /\ account_count <= MAX_ACCOUNTS
    /\ UsernamesUnique
    /\ [][/\ account_count' <= MAX_ACCOUNTS
          /\ UsernamesUnique'
          /\ (call'.op = "sign_up" /\ out' = "Account registered successfully!")
                 => LET n == account_count
                    IN /\ \A g \in Live : Acc(g).username # call'.s1
                       /\ n < MAX_ACCOUNTS
                       /\ account_count' = n + 1
                       /\ AccNext(n).used # 0
                       /\ AccNext(n).username = call'.s1
                       /\ AccNext(n).agency = call'.s2
                       /\ AccNext(n).balance = 0
                       /\ AccNext(n).credit_used = 0
                       /\ AccNext(n).credit_limit = 10000
                       /\ AccNext(n).pix_key = NoKey
                       /\ print_txlog(AccNext(n).txlog) = <<>>
                       /\ \A g \in Handles \ {n} : AccNext(g) = Acc(g)
                       /\ pix_table' = pix_table
                       /\ hist' = hist
          /\ (call'.op = "sign_up" /\ out' # "Account registered successfully!")
                 => BankUnchanged
          /\ call'.op # "sign_up" => account_count' = account_count]_vars

\* C12, witness: the last free index was taken by a registration, made after
\* other accounts had logged records, and the store is now full.
C12_Witness ==
    /\ SignUpAccepted
    /\ account_count = MAX_ACCOUNTS
    /\ accounts[account_count - 1].username = call.s1
    /\ accounts[account_count - 1].balance = 0
    /\ \E g \in Live : hist[g] # <<>>

\* C12, the two refusals: a taken username, and a full store.
C12_WitnessTaken ==
    /\ call.op = "sign_up" /\ out = "Username already taken."
    /\ \E g \in Live : accounts[g].username = call.s1

C12_WitnessFull ==
    /\ call.op = "sign_up" /\ out = "Account limit reached."
    /\ account_count = MAX_ACCOUNTS
    /\ \A g \in Live : accounts[g].username # call.s1

\* The slots of a table that hold an entry.
Occupied(tbl) == {s \in Slots : tbl[s] # 0}

\* C13: in every reachable state the number of occupied slots of pix_table is at
\* most PIX_TABLE_SIZE - 1: it is at most account_count, which is at most
\* MAX_ACCOUNTS, which is below PIX_TABLE_SIZE; so the table always has an empty
\* slot, although pix_insert tests no capacity.
C13_TableNeverFull ==
    /\ account_count <= MAX_ACCOUNTS
    /\ MAX_ACCOUNTS <= PIX_TABLE_SIZE - 1
    /\ Cardinality(Occupied(pix_table)) <= account_count
    /\ Cardinality(Occupied(pix_table)) <= PIX_TABLE_SIZE - 1
    /\ \E s \in Slots : pix_table[s] = 0

\* C13, witness: the store is full and every account holds a key, some of them
\* set after another key, so the table holds as many entries as it ever can.
C13_Witness ==
    /\ account_count = MAX_ACCOUNTS
    /\ \A h \in Live : HasKey(h)
    /\ Cardinality(Occupied(pix_table)) = MAX_ACCOUNTS
    /\ SetKeyAccepted
    /\ Len(hist[call.h]) > 1

\* authenticate, read in the state a step leads to.
AuthNext(username, password) ==
    LET idx == find_account_by_name(accounts', account_count', username)
    IN IF idx >= 0 /\ accounts'[idx].password = password THEN idx ELSE 0 - 1

\* The usernames and passwords the operations are called with.
KnownUsernames == Usernames \cup {"user2"}
KnownPasswords == OldPasswords \cup NewPasswords

\* authenticate succeeds only for the username of a live account with exactly
\* that account's password, and returns that account.
AuthenticateExact ==
    \A u \in KnownUsernames, p \in KnownPasswords :
        LET idx == authenticate(u, p)
        IN IF \E g \in Live : accounts[g].username = u /\ accounts[g].password = p
           THEN idx \in Live /\ accounts[idx].username = u /\ accounts[idx].password = p
           ELSE idx = 0 - 1

\* C14: change_password succeeds iff oldp is exactly the stored password and newp
\* is not empty; it then stores newp and logs one MISC record, after which
\* authenticate(username, newp) is the account and, if oldp differs from newp,
\* authenticate(username, oldp) fails; authenticate succeeds only for an existing
\* username with exactly the stored password.
C14_ChangePassword ==
    /\ AuthenticateExact
    /\ [][/\ AuthenticateExact'
          /\ call'.op = "change_password"
                 => LET h == call'.h
                        oldp == call'.s1
                        newp == call'.s2
                    IN IF oldp = Acc(h).password /\ newp # ""
                       THEN /\ out' = "Password updated successfully."
                            /\ AccNext(h).password = newp
                            /\ LoggedOne(h, TX_MISC, 0)
                            /\ \A g \in Handles \ {h} : hist'[g] = hist[g]
                            /\ AuthNext(Acc(h).username, newp) = h
                            /\ oldp # newp => AuthNext(Acc(h).username, oldp) = 0 - 1
                       ELSE /\ out' # "Password updated successfully."
                            /\ BankUnchanged]_vars

\* C14, witness: an account replaced its password by a different one; the new
\* password logs it in and the old one no longer does.
C14_Witness ==
    /\ call.op = "change_password"
    /\ out = "Password updated successfully."
    /\ call.s1 # call.s2
    /\ authenticate(accounts[call.h].username, call.s2) = call.h
    /\ authenticate(accounts[call.h].username, call.s1) = 0 - 1

\* The slots of a table that reference account h.
SlotsOf(tbl, h) == {s \in Slots : tbl[s] = h + 1}

\* C15: in every reachable state every occupied slot of pix_table references a
\* live account whose pix_key is not empty, and every account with a non-empty
\* pix_key is referenced by exactly one slot; so the number of occupied slots is
\* the number of accounts that hold a key.
C15_TableAgreesWithAccounts ==
    /\ \A s \in Occupied(pix_table) :
           /\ pix_table[s] - 1 \in Live
           /\ HasKey(pix_table[s] - 1)
    /\ \A h \in Live : HasKey(h) => Cardinality(SlotsOf(pix_table, h)) = 1
    /\ \A h \in Handles : ~HasKey(h) => SlotsOf(pix_table, h) = {}
    /\ Cardinality(Occupied(pix_table)) = Cardinality({h \in Live : HasKey(h)})

\* C15, witness: an account replaced its key by one with another home slot,
\* while a registered account holds no key: the old slot is empty, the account
\* has one slot, and the account without key has none.
C15_Witness ==
    /\ SetKeyAccepted
    /\ Len(hist[call.h]) > 1
    /\ \E g \in Live : ~HasKey(g)
    /\ pix_table[HomeSlot(user1pix)] = 0
    /\ accounts[0].pix_key = key_d
    /\ SlotsOf(pix_table, 0) = {HomeSlot(key_d)}
    /\ HomeSlot(key_d) # HomeSlot(user1pix)

\* The table between the two table calls of case '6': after
\* pix_remove(account->pix_key), before pix_insert.
pix_key_removed(h) ==
    IF accounts[h].pix_key # NoKey
    THEN pix_remove(pix_table, accounts, account_count, accounts[h].pix_key)
    ELSE pix_table

\* C16: when an account holding key old sets a different key new and is
\* accepted, the old entry is removed before the new one is inserted: the table
\* before, between and after the two calls never holds two slots referencing
\* the account; afterwards pix_find(old) is -1 (another account's request for
\* old would pass the test of case '6'), pix_find(new) is the account, and
\* exactly one MISC record was logged.
C16_ReplaceRemovesFirst ==
    [][(/\ call'.op = "set_pix_key"
        /\ out' = "PIX key updated successfully."
        /\ Acc(call'.h).pix_key # NoKey
        /\ call'.key # Acc(call'.h).pix_key)
          => LET h == call'.h
                 old == Acc(h).pix_key
                 new == call'.key
                 mid == pix_key_removed(h)
                 cleared == [accounts EXCEPT ![h].pix_key = NoKey]
                 renamed == [accounts EXCEPT ![h].pix_key = new]
             IN /\ Cardinality(SlotsOf(pix_table, h)) = 1
                /\ SlotsOf(mid, h) = {}
                /\ pix_find(mid, cleared, account_count, old) = 0 - 1
                /\ pix_table' = pix_insert(mid, renamed, account_count, new, h)
                /\ Cardinality(SlotsOf(pix_table', h)) = 1
                /\ AccNext(h).pix_key = new
                /\ FindNext(old) = 0 - 1
                /\ \A g \in Live \ {h} : ~(FindNext(old) >= 0 /\ FindNext(old) # g)
                /\ FindNext(new) = h
                /\ LoggedOne(h, TX_MISC, 0)
                /\ \A g \in Handles \ {h} : hist'[g] = hist[g]]_vars

\* C16, witness: account 0 gave up user1pix for another key, and account 1 then
\* asked for user1pix and got it.
C16_Witness ==
    /\ SetKeyAccepted
    /\ call.h = 1
    /\ call.key = user1pix
    /\ accounts[1].pix_key = user1pix
    /\ HasKey(0)
    /\ accounts[0].pix_key # user1pix
    /\ Find(user1pix) = 1
    /\ Find(user2pix) = 0 - 1
    /\ Len(hist[0]) = 1 /\ Len(hist[1]) = 1

\* The occupied slots of tbl from slot j on, up to the first empty slot.
RECURSIVE RunFrom(_, _, _)
RunFrom(tbl, j, n) ==
    IF n = 0 \/ tbl[j] = 0 THEN <<>>
    ELSE <<j>> \o RunFrom(tbl, (j + 1) % PIX_TABLE_SIZE, n - 1)

\* The slot that holds account h's entry.
SlotOf(h) == CHOOSE s \in Slots : pix_table[s] = h + 1

\* C17: in every reachable state pix_find, pix_insert and pix_remove end, for
\* keys in the table and keys not in it, also when the cluster wraps around the
\* end of the table and also for the pix_insert that case '6' makes after its
\* pix_remove; the rehash loop of pix_remove runs once for each slot of the run
\* of occupied slots that follows the removed slot, in order, and stops at the
\* first empty slot.
C17_ProbesTerminate ==
    /\ \A k \in PixKeys :
           /\ Find(k) # FindHangs
           /\ Find(k) < 0 => pix_remove(pix_table, accounts, account_count, k) = pix_table
    /\ \A h \in Live :
           LET mid == pix_key_removed(h)
           IN /\ mid # TableHangs
              /\ \A k \in PixKeys :
                     pix_insert(mid, [accounts EXCEPT ![h].pix_key = k],
                                account_count, k, h) # TableHangs
    /\ \A h \in Live :
           HasKey(h) =>
               LET s == SlotOf(h)
                   hole == [pix_table EXCEPT ![s] = 0]
                   visited == pix_rehash_visited(hole, accounts, account_count,
                                                 NextSlot(s), 2 * PIX_TABLE_SIZE)
               IN /\ pix_table[s] = h + 1
                  /\ pix_key_removed(h) = pix_rehash_loop(hole, accounts, account_count,
                                                          NextSlot(s), 2 * PIX_TABLE_SIZE)
                  /\ visited = RunFrom(hole, (s + 1) % PIX_TABLE_SIZE, PIX_TABLE_SIZE)
                  /\ \A i \in 1 .. Len(visited), j \in 1 .. Len(visited) :
                         i # j => visited[i] # visited[j]

\* C17, witness: three keys with the last slot as home fill slots T-1, 0 and 1;
\* removing the entry of the last slot makes the rehash loop run for slots 0 and
\* 1, across the end of the table, and a probe for an absent key with that home
\* wraps around and ends at slot 2.
C17_Witness ==
    /\ SetKeyAccepted
    /\ account_count > 2
    /\ SlotOf(1) = PIX_TABLE_SIZE - 1
    /\ pix_table[0] # 0 /\ pix_table[1] # 0 /\ pix_table[2] = 0
    /\ pix_rehash_visited([pix_table EXCEPT ![PIX_TABLE_SIZE - 1] = 0], accounts,
                          account_count, 0, 2 * PIX_TABLE_SIZE) = <<0, 1>>
    /\ \E k \in PixKeys :
           /\ k # NoKey
           /\ HomeSlot(k) = PIX_TABLE_SIZE - 1
           /\ Find(k) = 0 - 1

\* The records a step appends to account h's history.
Added(h) == SubSeq(hist'[h], Len(hist[h]) + 1, Len(hist'[h]))
AddedTypes(h) == {Added(h)[i].type : i \in 1 .. Len(Added(h))}

\* C18: no step transfers funds from an account to itself: no account gets both
\* a TRANSFER_OUT and a TRANSFER_IN record in one step; a step that logs a
\* TRANSFER_OUT for the caller logs the TRANSFER_IN for a different account,
\* the one pix_find returns for the target key; and a call with the caller's
\* own key logs no transfer record at all (it is a credit advance or refused).
C18_NoSelfTransfer ==
    [][/\ \A h \in Handles :
              /\ Len(hist'[h]) >= Len(hist[h])
              /\ ~({TX_TRANSFER_OUT, TX_TRANSFER_IN} \subseteq AddedTypes(h))
       /\ \A h \in Handles :
              TX_TRANSFER_OUT \in AddedTypes(h)
                 => /\ call'.op = "transfer_" /\ call'.h = h
                    /\ Find(call'.key) \in Live \ {h}
                    /\ AddedTypes(Find(call'.key)) = {TX_TRANSFER_IN}
                    /\ \A g \in Handles \ {Find(call'.key)} :
                           TX_TRANSFER_IN \notin AddedTypes(g)
       /\ \A h \in Handles :
              TX_TRANSFER_IN \in AddedTypes(h)
                 => /\ call'.op = "transfer_" /\ call'.h # h
                    /\ AddedTypes(call'.h) = {TX_TRANSFER_OUT}
       /\ (call'.op = "transfer_" /\ HasKey(call'.h)
                /\ call'.key = Acc(call'.h).pix_key)
              => \A g \in Handles :
                     AddedTypes(g) \cap {TX_TRANSFER_OUT, TX_TRANSFER_IN} = {}]_vars

\* C18, witness: a transfer was made, to the account that holds the target key,
\* which is not the sender; before it the same sender had named its own key and
\* got a credit advance.
C18_Witness ==
    /\ call.op = "transfer_"
    /\ out = "Transferred"
    /\ Find(call.key) \in Live \ {call.h}
    /\ Len(hist[call.h]) > 1
    /\ hist[call.h][Len(hist[call.h]) - 1].type = TX_CREDIT_ADV
    /\ hist[call.h][Len(hist[call.h])].type = TX_TRANSFER_OUT
    /\ hist[Find(call.key)][Len(hist[Find(call.key)])].type = TX_TRANSFER_IN

\* Sum of f[x] over the elements x of S.
RECURSIVE SumOver(_, _)
SumOver(f, S) ==
    IF S = {} THEN 0
    ELSE LET x == CHOOSE y \in S : TRUE IN f[x] + SumOver(f, S \ {x})

\* Over all accounts: sum of the balances minus sum of credit_used.
NetFunds(accs) == SumOver([h \in Handles |-> accs[h].balance - accs[h].credit_used],
                          Handles)

\* C19: the sum of the balances minus the sum of credit_used, over all accounts,
\* increases by exactly amount in an accepted deposit, decreases by exactly
\* amount in an accepted withdrawal, and is unchanged by every other step
\* (transfer, credit advance, set_pix_key, change_credit_limit, change_password,
\* sign_up, log_in and every refused call).
C19_FundsConserved ==
    [][LET delta == NetFunds(accounts') - NetFunds(accounts)
       IN IF call'.op = "deposit" /\ out' = "Deposited"
          THEN delta = call'.amount
          ELSE IF call'.op = "withdraw_" /\ out' = "Withdrew"
          THEN delta = 0 - call'.amount
          ELSE delta = 0]_vars

\* Sum of the amounts of the records of s whose type is in types.
RECURSIVE SumAmounts(_, _, _)
SumAmounts(s, types, i) ==
    IF i > Len(s) THEN 0
    ELSE (IF s[i].type \in types THEN s[i].amount ELSE 0) + SumAmounts(s, types, i + 1)

\* C20: for every account whose ring has lost no record (at most TX_LOG_SIZE
\* records pushed), balance is the sum of the amounts of its DEPOSIT,
\* TRANSFER_IN and CREDIT_ADV records minus the sum of its WITHDRAW and
\* TRANSFER_OUT amounts, credit_used is the sum of its CREDIT_ADV amounts, each
\* of these records has amount > 0 and every MISC record has amount 0.
C20_HistoryReconciles ==
    \A h \in Handles :
        Len(hist[h]) <= TX_LOG_SIZE =>
            LET recs == print_txlog(accounts[h].txlog)
            IN /\ accounts[h].balance =
                      SumAmounts(recs, {TX_DEPOSIT, TX_TRANSFER_IN, TX_CREDIT_ADV}, 1)
                        - SumAmounts(recs, {TX_WITHDRAW, TX_TRANSFER_OUT}, 1)
               /\ accounts[h].credit_used = SumAmounts(recs, {TX_CREDIT_ADV}, 1)
               /\ \A i \in 1 .. Len(recs) :
                      IF recs[i].type = TX_MISC
                      THEN recs[i].amount = 0
                      ELSE recs[i].amount > 0

\* The slots a probe tries from slot a up to and including slot b, cyclically.
ProbePath(a, b) ==
    IF a <= b THEN a .. b ELSE (a .. (PIX_TABLE_SIZE - 1)) \cup (0 .. b)

\* C21: in every reachable state, for every occupied slot s holding account h,
\* every slot on the cyclic probe path from the home slot of h's key up to and
\* including s is occupied; pix_insert and pix_remove with its rehash keep it so.
C21_ProbePathOccupied ==
    \A s \in Occupied(pix_table) :
        LET h == pix_table[s] - 1
        IN /\ h \in Live
           /\ \A t \in ProbePath(HomeSlot(accounts[h].pix_key), s) : pix_table[t] # 0

\* C21, witness: an account replaced its key, so pix_remove rehashed, and some
\* entry lies away from its home slot on a path that wraps around the table's
\* end, while the table also has an entry in its home slot.
C21_Witness ==
    /\ SetKeyAccepted
    /\ Len(hist[call.h]) > 1
    /\ \E g \in Live :
           /\ HasKey(g)
           /\ SlotOf(g) < HomeSlot(accounts[g].pix_key)
           /\ Cardinality(ProbePath(HomeSlot(accounts[g].pix_key), SlotOf(g))) > 1
    /\ \E g \in Live : HasKey(g) /\ SlotOf(g) = HomeSlot(accounts[g].pix_key)

\* Account g and its history are what they were.
SameAccount(g) == accounts'[g] = accounts[g] /\ hist'[g] = hist[g]

\* Of account g, at most the balance and the transaction ring have changed.
OnlyBalanceAndLog(g) ==
    [accounts'[g] EXCEPT !.balance = accounts[g].balance,
                         !.txlog = accounts[g].txlog] = accounts[g]

\* C22: deposit, withdraw_, a credit advance, set_pix_key, change_credit_limit
\* and change_password called for account A change no field and no record of
\* any other account (set_pix_key may move other accounts' entries to other
\* slots, but pix_find of their keys returns the same account); an accepted
\* transfer from A to B changes only the balance and the history of A and of B
\* and leaves every third account unchanged.
C22_Frame ==
    [][/\ (/\ call'.op \in {"deposit", "withdraw_", "set_pix_key",
                            "change_credit_limit", "change_password"})
              => \A g \in Handles \ {call'.h} : SameAccount(g)
       /\ (call'.op = "transfer_" /\ call'.key = Acc(call'.h).pix_key)
              => \A g \in Handles \ {call'.h} : SameAccount(g)
       /\ call'.op = "set_pix_key"
              => \A g \in Live \ {call'.h} :
                     HasKey(g) => /\ Find(Acc(g).pix_key) = g
                                  /\ FindNext(Acc(g).pix_key) = g
       /\ (call'.op = "transfer_" /\ out' = "Transferred")
              => LET a == call'.h
                     b == Find(call'.key)
                 IN /\ b \in Live \ {a}
                    /\ OnlyBalanceAndLog(a)
                    /\ OnlyBalanceAndLog(b)
                    /\ \A g \in Handles \ {a, b} : SameAccount(g)
                    /\ pix_table' = pix_table
                    /\ account_count' = account_count]_vars

\* C22, witness: with three accounts in the store, a transfer between two of
\* them was accepted; the third is registered and has its fields as sign_up
\* left them.
C22_Witness ==
    /\ call.op = "transfer_"
    /\ out = "Transferred"
    /\ account_count > 2
    /\ Find(call.key) \in Live \ {call.h}
    /\ accounts[Find(call.key)].balance = call.amount
    /\ \E g \in Live \ {call.h, Find(call.key)} :
           accounts[g].used # 0 /\ accounts[g].balance = 0 /\ hist[g] = <<>>

=============================================================================
